---- MODULE Spec2Model ----
(***************************************************************************)
(* Model of src/main.py: the mysqldump -> local file -> S3 backup pipeline. *)
(* Every invocation of the script is one process (a "run"); the runs share  *)
(* the working directory (disk), the bucket and the wall clock.             *)
(***************************************************************************)
EXTENDS Integers, Sequences, FiniteSets, TLC

\* ------------------------------------------------------------------ bounds
\* longest dump output (in bytes) the model lets mysqldump write
MaxDumpLen == 1
\* wall-clock seconds 0..MaxSecond of the modelled minute
MaxSecond == 1
\* microsecond fields 0..MaxMicro of datetime.now()
MaxMicro == 1

\* the invocations of the script: the scheduler triggers them one after the other
Runs == {1, 2}

\* the byte values mysqldump may write
Bytes == {0, 1}

\* None where a text is held
None == "None"
\* an optional number: <<>> is Python's None, <<n>> the number n
Some(n) == <<n>>
\* before the clock was read: an instant earlier than all
NoTime == [sec |-> -1, micro |-> 0]

\* ------------------------------------------------------- text as code points
\* Python compares str values code point by code point; a text is modelled as
\* the sequence of its code points.
Digit(d) == 48 + d

TwoDigits(n) == <<Digit(n \div 10), Digit(n % 10)>>

SixDigits(n) ==
    <<Digit((n \div 100000) % 10), Digit((n \div 10000) % 10),
      Digit((n \div 1000) % 10), Digit((n \div 100) % 10),
      Digit((n \div 10) % 10), Digit(n % 10)>>

\* "2024-01-01T00:00:" : the date, hour and minute fields, fixed in the model
DateHourMinute ==
    <<50, 48, 50, 52, 45, 48, 49, 45, 48, 49, 84, 48, 48, 58, 48, 48, 58>>

Timestamps == [sec : 0..MaxSecond, micro : 0..MaxMicro]

\* t1 is an earlier instant than t2
Earlier(t1, t2) ==
    \/ t1.sec < t2.sec
    \/ t1.sec = t2.sec /\ t1.micro < t2.micro

\* a timestamp text of one-second resolution
IsoFormatSeconds(t) == DateHourMinute \o TwoDigits(t.sec)

\* datetime.isoformat(): "YYYY-MM-DDTHH:MM:SS.ffffff", or, when the microsecond
\* field is 0, "YYYY-MM-DDTHH:MM:SS"
IsoFormat(t) ==
    DateHourMinute \o TwoDigits(t.sec)
        \o (IF t.micro = 0 THEN <<>> ELSE <<46>> \o SixDigits(t.micro))

\* f"backup_{datetime.now().isoformat()}.sql"
BackupFileName(t) ==
    <<98, 97, 99, 107, 117, 112, 95>> \o IsoFormat(t) \o <<46, 115, 113, 108>>

\* f"db-backups/{file_name}"
ObjectKey(file_name) ==
    <<100, 98, 45, 98, 97, 99, 107, 117, 112, 115, 47>> \o file_name

\* Python's str < str
RECURSIVE StrLess(_, _)
StrLess(a, b) ==
    IF b = <<>> THEN FALSE
    ELSE IF a = <<>> THEN TRUE
    ELSE IF Head(a) # Head(b) THEN Head(a) < Head(b)
    ELSE StrLess(Tail(a), Tail(b))

\* ------------------------------------------------------------- Formatter
\* the divisor and threshold of magnitude_format_size
Kilo == 1024
\* the divisor and threshold of magnitude_time_format
Sixty == 60

SizeUnits == <<"B", "KB", "MB", "GB", "TB", "PB", "EB", "ZB", "YB">>
TimeUnits == <<"s", "m", "h">>

NotImplementedError == [raised |-> TRUE, error |-> "NotImplementedError"]

\* A byte count is held as its base-Kilo digits, most significant first and
\* without leading zeros (0 is <<>>), so that counts beyond 32 bits can be formatted.
RECURSIVE SizeDigits(_)
SizeDigits(n) ==
    IF n = 0 THEN <<>> ELSE Append(SizeDigits(n \div Kilo), n % Kilo)

Front(s) == SubSeq(s, 1, Len(s) - 1)

\* the bits of a double's significand
MantissaBits == 53

RECURSIVE BitLen(_)
BitLen(d) == IF d = 0 THEN 0 ELSE 1 + BitLen(d \div 2)

RECURSIVE Pow2(_)
Pow2(n) == IF n = 0 THEN 1 ELSE 2 * Pow2(n - 1)

\* the bits of one base-Kilo digit
DigitBits == BitLen(Kilo - 1)

\* digits + a, a added to the last digit
RECURSIVE AddLast(_, _)
AddLast(digits, a) ==
    IF digits = <<>> THEN <<a>>
    ELSE LET v == digits[Len(digits)] + a
         IN IF v < Kilo THEN Front(digits) \o <<v>>
            ELSE AddLast(Front(digits), 1) \o <<v - Kilo>>

\* float(size) of an int: the nearest double (ties to even), which is size itself
\* when size has no more than MantissaBits significant bits
RoundToDouble(size) ==
    IF size = <<>> THEN size
    ELSE LET n == Len(size)
             drop == BitLen(size[1]) + DigitBits * (n - 1) - MantissaBits
         IN IF drop <= 0 THEN size
            ELSE LET j == drop \div DigitBits
                     b == Pow2(drop % DigitBits)
                     p == n - j
                     hi == size[p] \div b
                     lo == size[p] % b
                     restZero == \A i \in (p + 1)..n : size[i] = 0
                     laterZero == \A i \in (p + 2)..n : size[i] = 0
                     above == IF b > 1
                              THEN 2 * lo > b \/ (2 * lo = b /\ ~restZero)
                              ELSE \/ 2 * size[p + 1] > Kilo
                                   \/ 2 * size[p + 1] = Kilo /\ ~laterZero
                     half == IF b > 1
                             THEN 2 * lo = b /\ restZero
                             ELSE 2 * size[p + 1] = Kilo /\ laterZero
                     kept == SubSeq(size, 1, p - 1) \o <<hi * b>>
                     rounded == IF above \/ (half /\ hi % 2 = 1)
                                THEN AddLast(kept, b) ELSE kept
                 IN rounded \o [i \in 1..j |-> 0]

\* frac * m for a fraction given by its base-Kilo digits: the integer part
\* (carry) and the digits of the remaining fraction
RECURSIVE MulFrac(_, _)
MulFrac(frac, m) ==
    IF frac = <<>> THEN [carry |-> 0, digits |-> <<>>]
    ELSE LET rest == MulFrac(Tail(frac), m)
             v == Head(frac) * m + rest.carry
         IN [carry |-> v \div Kilo, digits |-> <<v % Kilo>> \o rest.digits]

\* f"{size:3.1f}": the value whole + 0.frac rounded to one decimal (ties to even),
\* as the pair of its integer part and its tenths digit
FormatOneDecimal(whole, frac) ==
    LET w == IF whole = <<>> THEN 0 ELSE whole[1]
        x == MulFrac(frac, 10)
        d == x.digits
        above == d # <<>> /\ (\/ d[1] > Kilo \div 2
                              \/ d[1] = Kilo \div 2 /\ \E i \in 2..Len(d) : d[i] # 0)
        half == d # <<>> /\ d[1] = Kilo \div 2 /\ \A i \in 2..Len(d) : d[i] = 0
        t == x.carry + (IF above \/ (half /\ x.carry % 2 = 1) THEN 1 ELSE 0)
    IN IF t = 10 THEN [whole |-> w + 1, tenths |-> 0]
       ELSE [whole |-> w, tenths |-> t]

\* the loop with the test size <= 1024.0
RECURSIVE SizeLoopInclusive(_, _, _)
SizeLoopInclusive(whole, frac, k) ==
    IF k > Len(SizeUnits) THEN NotImplementedError
    ELSE IF Len(whole) <= 1
            \/ (whole = <<1, 0>> /\ \A i \in DOMAIN frac : frac[i] = 0)
         THEN [raised |-> FALSE,
               value |-> IF Len(whole) <= 1 THEN FormatOneDecimal(whole, frac)
                         ELSE [whole |-> Kilo, tenths |-> 0],
               unit |-> SizeUnits[k]]
         ELSE SizeLoopInclusive(Front(whole), <<whole[Len(whole)]>> \o frac, k + 1)

\* the for loop of magnitude_format_size: whole and frac are the digits of the
\* integer and of the fractional part of size, k the index of the unit. The first
\* division turns the int into a double; dividing a double by 1024.0 is exact.
RECURSIVE SizeLoop(_, _, _)
SizeLoop(whole, frac, k) ==
    IF k > Len(SizeUnits) THEN NotImplementedError
    ELSE IF Len(whole) <= 1
         THEN [raised |-> FALSE, value |-> FormatOneDecimal(whole, frac),
               unit |-> SizeUnits[k]]
         ELSE LET f == IF k = 1 THEN RoundToDouble(whole) ELSE whole
              IN SizeLoop(Front(f), <<f[Len(f)]>> \o frac, k + 1)

magnitude_format_size(size) == SizeLoop(size, <<>>, 1)

\* f"{seconds:.2f}": ms / per (per: the milliseconds of the unit) rounded to two
\* decimals (ties to even), in hundredths of the unit
FormatTwoDecimals(ms, per) ==
    LET h == per \div 100
        q == ms \div h
        r == ms % h
    IN IF 2 * r > h \/ (2 * r = h /\ q % 2 = 1) THEN q + 1 ELSE q

\* the for loop of magnitude_time_format; the duration is held in milliseconds,
\* per is the number of milliseconds of the unit with index k
RECURSIVE TimeLoop(_, _, _)
TimeLoop(ms, per, k) ==
    IF k > Len(TimeUnits) THEN NotImplementedError
    ELSE IF ms < Sixty * per
         THEN [raised |-> FALSE, value |-> FormatTwoDecimals(ms, per),
               unit |-> TimeUnits[k]]
         ELSE TimeLoop(ms, per * Sixty, k + 1)

magnitude_time_format(ms) == TimeLoop(ms, 1000, 1)

\* ------------------------------------------------------------ environment
\* what process.returncode can be once the shell running "sudo mysqldump ..." has
\* ended: its exit status, or -N when signal N killed it
ReturnCodes == {-9, 0, 1, 2}

\* what process.returncode is when mysqldump is not installed: sudo ends with 1
\* ("command not found"), and the shell with 127 when sudo itself is not found
NotFoundCodes == {1, 127}

\* the exceptions session.create_client(...) and put_object(...) can raise
SessionErrors == {"session"}
PutErrors == {"auth", "transport", "rejected"}

\* time.perf_counter() - start_time, in milliseconds
ElapsedValues == {1500, 90000, 7200000, 216000000}

\* the status the operating system reports for exit(code): its low 8 bits
ExitStatus(code) == code % 256

\* ------------------------------------------------------------ configuration
\* lines 17-25: the names read with os.getenv
ConfigFields == {"LOG_LEVEL", "DB_USER", "DB_PASS", "DB_NAME", "AWS_ACCESS_KEY_ID",
                 "AWS_SECRET_ACCESS_KEY", "AWS_BUCKET_NAME", "AWS_BUCKET_REGION",
                 "AWS_ENDPOINT_URL"}

\* an environment variable is unset (None), set to the empty string, or set to a value
EnvValues == {None, "", "value"}

\* the environment of a configured installation
Configured == [f \in ConfigFields |-> "value"]

\* the configured environment, and those with one variable unset or empty
Environs == {Configured} \cup
            {[Configured EXCEPT ![f] = v] : f \in ConfigFields, v \in EnvValues}

\* os.getenv(name)
getenv(env, name) == env[name]

\* lines 27-35: assert X is not None, for each of the nine names
AssertsHold(env) == \A f \in ConfigFields : getenv(env, f) # None

\* ------------------------------------------------------------------- state
VARIABLES
    removeCalls,        \* the calls of remove_if_exists made on their own: name, disk before and after, what was raised
    environ,            \* the process environment after load_dotenv: name -> value, None when unset
    clock,              \* the last value datetime.now() returned; NoTime before any
    disk,               \* the working directory: file name -> bytes
    bucket,             \* the S3 bucket: key -> body
    pc,                 \* per run: where the process is
    createdAt,          \* per run: the value of datetime.now() at line 109
    backup_file_name,   \* per run: main's backup_file_name
    atexit,             \* per run: the file names remove_if_exists is registered for
    process,            \* per run: the dump subprocess
    dumpStdout,         \* per run: the bytes mysqldump has written to its stdout
    dumpStarts,         \* per run: how many dump processes were spawned
    putCalls,           \* per run: how many put_object calls were made
    log,                \* per run: the records handed to logging
    elapsed,            \* per run: the elapsed time main measured; -1 before
    raised,             \* per run: the exception raised in the run; None if none
    outcome,            \* per run: how main() ended; None while it runs
    exitCode,           \* per run: the code the interpreter exits with, optional
    exitStatus,         \* per run: the status of the ended process; -1 before
    sizeArg,            \* the byte count handed to magnitude_format_size
    sizeOut,            \* what that call gave, optional
    timeArg,            \* the milliseconds handed to magnitude_time_format
    timeOut             \* what that call gave, optional

vars == <<removeCalls, environ, clock, disk, bucket, pc, createdAt, backup_file_name, atexit, process,
          dumpStdout, dumpStarts, putCalls, log, elapsed, raised, outcome, exitCode,
          exitStatus, sizeArg, sizeOut, timeArg, timeOut>>

\* the formatter calls made on their own, outside a run
fmtVars == <<sizeArg, sizeOut, timeArg, timeOut>>

\* the state of the runs
runVars == <<environ, clock, disk, bucket, pc, createdAt, backup_file_name, atexit, process,
             dumpStdout, dumpStarts, putCalls, log, elapsed, raised, outcome,
             exitCode, exitStatus>>

NoProcess == [state |-> "none", missing |-> FALSE, returncode |-> <<>>,
              stderrDecodes |-> TRUE]

InitRun ==
    /\ clock = NoTime
    /\ disk = <<>>
    /\ bucket = <<>>
    /\ pc = [r \in Runs |-> "idle"]
    /\ createdAt = [r \in Runs |-> NoTime]
    /\ backup_file_name = [r \in Runs |-> <<>>]
    /\ atexit = [r \in Runs |-> <<>>]
    /\ process = [r \in Runs |-> NoProcess]
    /\ dumpStdout = [r \in Runs |-> <<>>]
    /\ dumpStarts = [r \in Runs |-> 0]
    /\ putCalls = [r \in Runs |-> 0]
    /\ log = [r \in Runs |-> <<>>]
    /\ elapsed = [r \in Runs |-> -1]
    /\ raised = [r \in Runs |-> None]
    /\ outcome = [r \in Runs |-> None]
    /\ exitCode = [r \in Runs |-> <<>>]
    /\ exitStatus = [r \in Runs |-> -1]
    /\ sizeArg = <<>>
    /\ sizeOut = <<>>
    /\ timeArg = 0
    /\ timeOut = <<>>
    /\ removeCalls = <<>>

\* a configured installation
Init == InitRun /\ environ = Configured

\* any of the environments
InitEnviron == InitRun /\ environ \in Environs

\* ----------------------------------------------------------------- helpers
Exists(d, name) == name \in DOMAIN d

\* the directory or bucket d with name bound to data
Store(d, name, data) ==
    [n \in DOMAIN d \cup {name} |-> IF n = name THEN data ELSE d[n]]

\* os.remove
Remove(d, name) == [n \in DOMAIN d \ {name} |-> d[n]]

\* a body read from an empty stream
FileBodyEmpty(d, file_name) == <<>>

\* Body=backup_file: the bytes read from the file opened at line 87
FileBody(d, file_name) == IF Exists(d, file_name) THEN d[file_name] ELSE <<>>

\* remove_if_exists without the os.remove
remove_if_exists_skipped(d, file_name) == d

\* remove_if_exists: the directory after the call
remove_if_exists(d, file_name) ==
    IF Exists(d, file_name) THEN Remove(d, file_name) ELSE d

\* line 104: what os.remove raises
os_remove_raises(d, name) == IF Exists(d, name) THEN None ELSE "FileNotFoundError"

\* remove_if_exists without the test of line 103
remove_unguarded_raises(d, name) == os_remove_raises(d, name)

\* lines 102-104: what remove_if_exists raises
remove_if_exists_raises(d, name) ==
    IF Exists(d, name) THEN os_remove_raises(d, name) ELSE None

\* the interpreter's exit: the registered calls run, last registered first
RECURSIVE RunAtexit(_, _)
RunAtexit(d, hooks) ==
    IF hooks = <<>> THEN d
    ELSE RunAtexit(remove_if_exists(d, hooks[Len(hooks)]), Front(hooks))

\* export_sql_to_file with the dump's return code dropped
export_exit_code_ignored(returncode) == 0

\* lines 72-75: the value export_sql_to_file returns
export_exit_code(returncode) == IF returncode = <<>> THEN 1 ELSE returncode[1]

\* another code returned from the except clause
UploadFailedCodeOther == 1 + 1

\* the code main returns from its except clause
UploadFailedCode == 1

\* the code the interpreter exits with when an exception leaves asyncio.run(main())
UncaughtCode == 1

\* main returns code, or an exception leaves it: raise SystemExit / the traceback
Finish(r, how, code) ==
    /\ outcome' = [outcome EXCEPT ![r] = how]
    /\ exitCode' = [exitCode EXCEPT ![r] = Some(code)]
    /\ pc' = [pc EXCEPT ![r] = "exiting"]

\* the exception e leaves main
Abort(r, e) ==
    /\ raised' = [raised EXCEPT ![r] = e]
    /\ Finish(r, "Aborted", UncaughtCode)

\* an except clause that tries the upload again instead of returning
UploadFailedRetry(r, e) ==
    /\ log' = [log EXCEPT ![r] = @ \o <<[level |-> "ERROR", msg |-> "failed uploading"],
                                         [level |-> "ERROR", msg |-> e]>>]
    /\ raised' = [raised EXCEPT ![r] = e]
    /\ pc' = [pc EXCEPT ![r] = "upload"]
    /\ UNCHANGED <<outcome, exitCode>>

\* the except clause of main, returning a code that depends on the exception
UploadFailedByKind(r, e) ==
    /\ log' = [log EXCEPT ![r] = @ \o <<[level |-> "ERROR", msg |-> "failed uploading"],
                                         [level |-> "ERROR", msg |-> e]>>]
    /\ raised' = [raised EXCEPT ![r] = e]
    /\ Finish(r, "UploadFailed", IF e \in PutErrors THEN 2 ELSE 1)

\* an except clause without its return: main goes on to the report
UploadFailedFallsThrough(r, e) ==
    /\ log' = [log EXCEPT ![r] = @ \o <<[level |-> "ERROR", msg |-> "failed uploading"],
                                         [level |-> "ERROR", msg |-> e]>>]
    /\ raised' = [raised EXCEPT ![r] = e]
    /\ outcome' = [outcome EXCEPT ![r] = "UploadFailed"]
    /\ exitCode' = [exitCode EXCEPT ![r] = Some(UploadFailedCode)]
    /\ pc' = [pc EXCEPT ![r] = "stat"]

\* the except clause of main, lines 133-136
UploadFailed(r, e) ==
    /\ log' = [log EXCEPT ![r] = @ \o <<[level |-> "ERROR", msg |-> "failed uploading"],
                                         [level |-> "ERROR", msg |-> e]>>]
    /\ raised' = [raised EXCEPT ![r] = e]
    /\ Finish(r, "UploadFailed", UploadFailedCode)

\* the scheduler starts an invocation when the one before it has ended
MayStart(r) == \A q \in Runs : q < r => pc[q] = "terminated"

\* ----------------------------------------------------------------- actions
\* lines 12-35: the module is loaded, the environment read and asserted; an
\* AssertionError leaves the module before main is called
Load(r) ==
    /\ pc[r] = "idle"
    /\ IF AssertsHold(environ)
       THEN /\ pc' = [pc EXCEPT ![r] = "main"]
            /\ UNCHANGED <<raised, outcome, exitCode>>
       ELSE Abort(r, "AssertionError")
    /\ UNCHANGED <<clock, disk, bucket, atexit, createdAt, backup_file_name, process, dumpStdout,
                   dumpStarts, putCalls, log, elapsed, exitStatus>>
    /\ UNCHANGED <<fmtVars, environ, removeCalls>>

\* an invocation of the script, started when the one before it has ended and
\* the clock has an instant left for it
Import(r) ==
    /\ MayStart(r)
    /\ \E t \in Timestamps : Earlier(clock, t)
    /\ Load(r)

\* lines 108-109: main starts, datetime.now() returns t, the file name is derived
BeginAt(r, t) ==
    /\ pc[r] = "main"
    /\ clock' = t
    /\ createdAt' = [createdAt EXCEPT ![r] = t]
    /\ backup_file_name' = [backup_file_name EXCEPT ![r] = BackupFileName(t)]
    /\ pc' = [pc EXCEPT ![r] = "register"]
    /\ UNCHANGED <<raised, disk, bucket, atexit, process, dumpStdout, dumpStarts, putCalls,
                   log, elapsed, outcome, exitCode, exitStatus>>
    /\ UNCHANGED <<fmtVars, environ, removeCalls>>

\* main of an invocation that follows another: the clock has moved on
Begin(r) == \E t \in Timestamps : Earlier(clock, t) /\ BeginAt(r, t)

\* main going on to the export without registering the cleanup
RegisterSkipped(r) ==
    /\ pc[r] = "register"
    /\ pc' = [pc EXCEPT ![r] = "open"]
    /\ UNCHANGED <<raised, clock, disk, bucket, createdAt, backup_file_name, atexit, process,
                   dumpStdout, dumpStarts, putCalls, log, elapsed, outcome, exitCode,
                   exitStatus>>
    /\ UNCHANGED <<fmtVars, environ, removeCalls>>

\* line 112: atexit.register(remove_if_exists, backup_file_name)
Register(r) ==
    /\ pc[r] = "register"
    /\ atexit' = [atexit EXCEPT ![r] = Append(@, backup_file_name[r])]
    /\ pc' = [pc EXCEPT ![r] = "open"]
    /\ UNCHANGED <<raised, clock, disk, bucket, createdAt, backup_file_name, process,
                   dumpStdout, dumpStarts, putCalls, log, elapsed, outcome, exitCode,
                   exitStatus>>
    /\ UNCHANGED <<fmtVars, environ, removeCalls>>

\* line 60: open(file_name, "wb+") creates the file, or empties the one there is
OpenBackupFile(r) ==
    /\ pc[r] = "open"
    /\ disk' = Store(disk, backup_file_name[r], <<>>)
    /\ pc' = [pc EXCEPT ![r] = "spawn"]
    /\ UNCHANGED <<raised, clock, bucket, createdAt, backup_file_name, atexit, process,
                   dumpStdout, dumpStarts, putCalls, log, elapsed, outcome, exitCode,
                   exitStatus>>
    /\ UNCHANGED <<fmtVars, environ, removeCalls>>

\* line 60: open raises OSError, which nothing catches
OpenBackupFileRaises(r) ==
    /\ pc[r] = "open"
    /\ Abort(r, "OSError")
    /\ UNCHANGED <<clock, disk, bucket, createdAt, backup_file_name, atexit, process,
                   dumpStdout, dumpStarts, putCalls, log, elapsed, exitStatus>>
    /\ UNCHANGED <<fmtVars, environ, removeCalls>>

\* lines 61-65: the shell running "sudo mysqldump ..." is spawned, its stdout the
\* file; the shell starts whether or not mysqldump is installed
SpawnDump(r) ==
    /\ pc[r] = "spawn"
    /\ \E missing \in BOOLEAN :
        process' = [process EXCEPT ![r] = [NoProcess EXCEPT !.state = "running",
                                                            !.missing = missing]]
    /\ dumpStarts' = [dumpStarts EXCEPT ![r] = @ + 1]
    /\ pc' = [pc EXCEPT ![r] = "communicate"]
    /\ UNCHANGED <<raised, clock, disk, bucket, createdAt, backup_file_name, atexit,
                   dumpStdout, putCalls, log, elapsed, outcome, exitCode, exitStatus>>
    /\ UNCHANGED <<fmtVars, environ, removeCalls>>

\* lines 61-65: create_subprocess_shell raises OSError (the shell cannot be
\* spawned), which nothing catches
SpawnDumpRaises(r) ==
    /\ pc[r] = "spawn"
    /\ Abort(r, "OSError")
    /\ process' = [process EXCEPT ![r] = [NoProcess EXCEPT !.state = "failed"]]
    /\ UNCHANGED <<clock, disk, bucket, createdAt, backup_file_name, atexit,
                   dumpStdout, dumpStarts, putCalls, log, elapsed, exitStatus>>
    /\ UNCHANGED <<fmtVars, environ, removeCalls>>

\* the running dump writes one more byte to its stdout, which is the file
DumpWrite(r) ==
    /\ process[r].state = "running"
    /\ ~process[r].missing
    /\ Len(dumpStdout[r]) < MaxDumpLen
    /\ \E b \in Bytes :
        /\ dumpStdout' = [dumpStdout EXCEPT ![r] = Append(@, b)]
        /\ disk' = IF Exists(disk, backup_file_name[r])
                   THEN Store(disk, backup_file_name[r],
                              Append(disk[backup_file_name[r]], b))
                   ELSE disk
    /\ UNCHANGED <<raised, clock, bucket, pc, createdAt, backup_file_name, atexit, process,
                   dumpStarts, putCalls, log, elapsed, outcome, exitCode, exitStatus>>
    /\ UNCHANGED <<fmtVars, environ, removeCalls>>

\* the dump ends: its return code, and whether what it wrote to stderr is UTF-8
DumpExit(r) ==
    /\ process[r].state = "running"
    /\ \E code \in IF process[r].missing THEN NotFoundCodes ELSE ReturnCodes,
          decodes \in BOOLEAN :
        process' = [process EXCEPT ![r] = [@ EXCEPT !.state = "exited",
                                                    !.returncode = Some(code),
                                                    !.stderrDecodes = decodes]]
    /\ UNCHANGED <<raised, clock, disk, bucket, pc, createdAt, backup_file_name, atexit,
                   dumpStdout, dumpStarts, putCalls, log, elapsed, outcome, exitCode,
                   exitStatus>>
    /\ UNCHANGED <<fmtVars, environ, removeCalls>>

\* lines 67-75 and 114-122: communicate() returns when the dump has ended; stderr
\* is decoded and logged (process.stderr is a pipe, never None); main returns the
\* code when it is not 0
ExportReturns(r) ==
    /\ pc[r] = "communicate"
    /\ process[r].state = "exited"
    /\ IF ~process[r].stderrDecodes
       THEN /\ Abort(r, "UnicodeDecodeError")
            /\ UNCHANGED log
       ELSE /\ log' = [log EXCEPT ![r] = Append(@, [level |-> "ERROR", msg |-> "stderr"])]
            /\ UNCHANGED raised
            /\ LET export_code == export_exit_code(process[r].returncode)
               IN IF export_code # 0
                  THEN Finish(r, "DumpFailed", export_code)
                  ELSE /\ pc' = [pc EXCEPT ![r] = "upload"]
                       /\ UNCHANGED <<outcome, exitCode>>
    /\ UNCHANGED <<clock, disk, bucket, createdAt, backup_file_name, atexit, process,
                   dumpStdout, dumpStarts, putCalls, elapsed, exitStatus>>
    /\ UNCHANGED <<fmtVars, environ, removeCalls>>

\* lines 86-94: the file is opened for reading and the client created; a missing
\* file raises FileNotFoundError, which main catches like any upload error
UploadOpen(r) ==
    /\ pc[r] = "upload"
    /\ IF Exists(disk, backup_file_name[r])
       THEN /\ pc' = [pc EXCEPT ![r] = "put_object"]
            /\ UNCHANGED <<log, raised, outcome, exitCode>>
       ELSE UploadFailed(r, "FileNotFoundError")
    /\ UNCHANGED <<clock, disk, bucket, createdAt, backup_file_name, atexit, process,
                   dumpStdout, dumpStarts, putCalls, elapsed, exitStatus>>
    /\ UNCHANGED <<fmtVars, environ, removeCalls>>

\* lines 86-94: get_session / create_client raises
UploadOpenRaises(r) ==
    /\ pc[r] = "upload"
    /\ \E e \in SessionErrors : UploadFailed(r, e)
    /\ UNCHANGED <<clock, disk, bucket, createdAt, backup_file_name, atexit, process,
                   dumpStdout, dumpStarts, putCalls, elapsed, exitStatus>>
    /\ UNCHANGED <<fmtVars, environ, removeCalls>>

\* an upload that removes the local file once it is stored
PutObjectAndRemove(r) ==
    /\ pc[r] = "put_object"
    /\ putCalls' = [putCalls EXCEPT ![r] = @ + 1]
    /\ bucket' = Store(bucket, ObjectKey(backup_file_name[r]),
                       FileBody(disk, backup_file_name[r]))
    /\ disk' = remove_if_exists(disk, backup_file_name[r])
    /\ pc' = [pc EXCEPT ![r] = "stat"]
    /\ UNCHANGED <<raised, clock, createdAt, backup_file_name, atexit, process,
                   dumpStdout, dumpStarts, log, elapsed, outcome, exitCode, exitStatus>>
    /\ UNCHANGED <<fmtVars, environ, removeCalls>>

\* lines 95-99: put_object stores the file's bytes under the key
PutObject(r) ==
    /\ pc[r] = "put_object"
    /\ putCalls' = [putCalls EXCEPT ![r] = @ + 1]
    /\ bucket' = Store(bucket, ObjectKey(backup_file_name[r]),
                       FileBody(disk, backup_file_name[r]))
    /\ pc' = [pc EXCEPT ![r] = "stat"]
    /\ UNCHANGED <<raised, clock, disk, createdAt, backup_file_name, atexit, process,
                   dumpStdout, dumpStarts, log, elapsed, outcome, exitCode, exitStatus>>
    /\ UNCHANGED <<fmtVars, environ, removeCalls>>

\* lines 95-99 and 133-136: put_object raises and stores nothing
PutObjectRaises(r) ==
    /\ pc[r] = "put_object"
    /\ putCalls' = [putCalls EXCEPT ![r] = @ + 1]
    /\ \E e \in PutErrors : UploadFailed(r, e)
    /\ UNCHANGED <<clock, disk, bucket, createdAt, backup_file_name, atexit, process,
                   dumpStdout, dumpStarts, elapsed, exitStatus>>
    /\ UNCHANGED <<fmtVars, environ, removeCalls>>

\* lines 138-145: os.stat, the two formatter calls, the success line, return 0;
\* an exception of os.stat or of a formatter leaves main
Report(r) ==
    /\ pc[r] = "stat"
    /\ IF ~Exists(disk, backup_file_name[r])
       THEN /\ Abort(r, "FileNotFoundError")
            /\ UNCHANGED <<log, elapsed>>
       ELSE \E ms \in ElapsedValues :
            LET file_size == magnitude_format_size(
                                 SizeDigits(Len(disk[backup_file_name[r]])))
                time_elapsed == magnitude_time_format(ms)
            IN /\ elapsed' = [elapsed EXCEPT ![r] = ms]
               /\ IF file_size.raised \/ time_elapsed.raised
                  THEN /\ Abort(r, NotImplementedError.error)
                       /\ UNCHANGED log
                  ELSE /\ log' = [log EXCEPT ![r] =
                                    Append(@, [level |-> "INFO", msg |-> "uploaded",
                                               size |-> file_size,
                                               time |-> time_elapsed])]
                       /\ UNCHANGED raised
                       /\ Finish(r, "Done", 0)
    /\ UNCHANGED <<clock, disk, bucket, createdAt, backup_file_name, atexit, process,
                   dumpStdout, dumpStarts, putCalls, exitStatus>>
    /\ UNCHANGED <<fmtVars, environ, removeCalls>>

\* line 150 and the interpreter's exit: the atexit calls run, the process ends
Exit(r) ==
    /\ pc[r] = "exiting"
    /\ disk' = RunAtexit(disk, atexit[r])
    /\ exitStatus' = [exitStatus EXCEPT ![r] = ExitStatus(exitCode[r][1])]
    /\ pc' = [pc EXCEPT ![r] = "terminated"]
    /\ UNCHANGED <<raised, clock, bucket, createdAt, backup_file_name, atexit, process,
                   dumpStdout, dumpStarts, putCalls, log, elapsed, outcome, exitCode>>
    /\ UNCHANGED <<fmtVars, environ, removeCalls>>

\* a step of invocation r
Step(r) ==
    \/ Import(r)
    \/ Begin(r)
    \/ Register(r)
    \/ OpenBackupFile(r)
    \/ OpenBackupFileRaises(r)
    \/ SpawnDump(r)
    \/ SpawnDumpRaises(r)
    \/ DumpWrite(r)
    \/ DumpExit(r)
    \/ ExportReturns(r)
    \/ UploadOpen(r)
    \/ UploadOpenRaises(r)
    \/ PutObject(r)
    \/ PutObjectRaises(r)
    \/ Report(r)
    \/ Exit(r)

Next == \E r \in Runs : Step(r)

Spec == Init /\ [][Next]_vars

\* one invocation, the process scheduled until it has ended: the dump process
\* ends and the upload call returns or raises
NextOne == Step(1)

SpecLive == Init /\ [][NextOne]_vars /\ WF_vars(NextOne)

\* the runs under any of the environments
SpecEnviron == InitEnviron /\ [][Next]_vars

\* ------------------------------------------------------------ concurrent runs
\* an invocation started while another may be running
ImportConcurrent(r) == Load(r)

\* main of a concurrent invocation: datetime.now() may return the instant it
\* returned to the other invocation
BeginConcurrent(r) == \E t \in Timestamps : ~Earlier(t, clock) /\ BeginAt(r, t)

NextConcurrent ==
    \E r \in Runs :
        \/ ImportConcurrent(r)
        \/ BeginConcurrent(r)
        \/ Register(r)
        \/ OpenBackupFile(r)
        \/ OpenBackupFileRaises(r)
        \/ SpawnDump(r)
        \/ SpawnDumpRaises(r)
        \/ DumpWrite(r)
        \/ DumpExit(r)
        \/ ExportReturns(r)
        \/ UploadOpen(r)
        \/ UploadOpenRaises(r)
        \/ PutObject(r)
        \/ PutObjectRaises(r)
        \/ Report(r)
        \/ Exit(r)

SpecConcurrent == Init /\ [][NextConcurrent]_vars

\* ------------------------------------------------- the formatters on their own
\* the longest byte count, in base-Kilo digits, handed to magnitude_format_size
MaxSizeDigits == 10

\* the digits the byte counts are made of
SizeDigitValues == {0, 1, Kilo - 1}

\* the durations handed to magnitude_time_format, in milliseconds: around the
\* whole numbers of seconds, minutes and hours
TimeInputs ==
    {0} \cup {u * m + o : u \in {1000, 1000 * Sixty, 1000 * Sixty * Sixty},
                          m \in {1, 2, 30, 59, 60},
                          o \in {-4, -1, 0, 1, 6}}

\* a larger byte count: one more digit
GrowSize ==
    /\ Len(sizeArg) < MaxSizeDigits
    /\ \E d \in SizeDigitValues :
        /\ sizeArg = <<>> => d # 0
        /\ sizeArg' = Append(sizeArg, d)
    /\ sizeOut' = <<>>
    /\ UNCHANGED <<timeArg, timeOut>>
    /\ UNCHANGED <<runVars, removeCalls>>

\* file_size = magnitude_format_size(size)
FormatSize ==
    /\ sizeOut = <<>>
    /\ sizeOut' = Some(magnitude_format_size(sizeArg))
    /\ UNCHANGED <<sizeArg, timeArg, timeOut>>
    /\ UNCHANGED <<runVars, removeCalls>>

NextSize == GrowSize \/ FormatSize

SpecSize == Init /\ [][NextSize]_vars

\* another duration
ChooseTime ==
    /\ timeOut = <<>>
    /\ timeArg = 0
    /\ timeArg' \in TimeInputs
    /\ UNCHANGED <<sizeArg, sizeOut, timeOut>>
    /\ UNCHANGED <<runVars, removeCalls>>

\* time_elapsed = magnitude_time_format(seconds)
FormatTime ==
    /\ timeOut = <<>>
    /\ timeOut' = Some(magnitude_time_format(timeArg))
    /\ UNCHANGED <<sizeArg, sizeOut, timeArg>>
    /\ UNCHANGED <<runVars, removeCalls>>

NextTime == ChooseTime \/ FormatTime

SpecTime == Init /\ [][NextTime]_vars

\* ------------------------------------------------ remove_if_exists on its own
\* how many calls of remove_if_exists are made in a row
MaxRemoveCalls == 2

\* the file names the calls are made with
RemoveNames == {BackupFileName([sec |-> sd, micro |-> 0]) : sd \in 0..MaxSecond}

\* what the files in the working directory hold
TouchBodies == {<<>>} \cup {<<b>> : b \in Bytes}

\* a file is in the working directory before the calls
TouchFile ==
    /\ removeCalls = <<>>
    /\ \E name \in RemoveNames, body \in TouchBodies : disk' = Store(disk, name, body)
    /\ UNCHANGED <<environ, clock, bucket, pc, createdAt, backup_file_name, atexit, process,
                   dumpStdout, dumpStarts, putCalls, log, elapsed, raised, outcome,
                   exitCode, exitStatus>>
    /\ UNCHANGED <<fmtVars, removeCalls>>

\* remove_if_exists(name)
CallRemove ==
    /\ Len(removeCalls) < MaxRemoveCalls
    /\ \E name \in RemoveNames :
        /\ disk' = remove_if_exists(disk, name)
        /\ removeCalls' = Append(removeCalls,
                                 [name |-> name, before |-> disk,
                                  after |-> remove_if_exists(disk, name),
                                  raised |-> remove_if_exists_raises(disk, name)])
    /\ UNCHANGED <<environ, clock, bucket, pc, createdAt, backup_file_name, atexit, process,
                   dumpStdout, dumpStarts, putCalls, log, elapsed, raised, outcome,
                   exitCode, exitStatus>>
    /\ UNCHANGED fmtVars

NextRemove == TouchFile \/ CallRemove

SpecRemove == Init /\ [][NextRemove]_vars

\* ------------------------------------------------------------------ claims
Terminated(r) == pc[r] = "terminated"

\* the dump of run r has ended with return code 0
DumpExitedZero(r) ==
    process[r].state = "exited" /\ process[r].returncode = Some(0)

\* upload_file_to_s3 has been called in run r
UploadBegun(r) ==
    \/ pc[r] \in {"put_object", "stat"}
    \/ putCalls[r] > 0
    \/ outcome[r] = "UploadFailed"

\* put_object has returned in run r
UploadSucceeded(r) ==
    /\ putCalls[r] > 0
    /\ pc[r] # "put_object"
    /\ raised[r] \notin PutErrors

\* the key of the object run r stores, derived from its creation timestamp
KeyOf(r) == ObjectKey(BackupFileName(createdAt[r]))

Logged(r, level, msg) ==
    \E i \in DOMAIN log[r] : log[r][i].level = level /\ log[r][i].msg = msg

\* C1: the upload never begins before the dump process has exited with status 0:
\* whenever upload_file_to_s3 has been called or is in progress in a run, that
\* run's dump has ended with return code 0 (so no upload is made while the dump
\* runs, nor at any point after a non-zero code).
C1_UploadOnlyAfterDumpExitedZero ==
    \A r \in Runs : UploadBegun(r) => DumpExitedZero(r)

C1_Witness ==
    \E r \in Runs : pc[r] = "put_object" /\ dumpStdout[r] # <<>>

\* C2: when the process has terminated, on whichever path, the local file
\* backup_<timestamp>.sql of that run does not exist.
C2_NoLocalFileAfterExit ==
    \A r \in Runs : Terminated(r) => ~Exists(disk, BackupFileName(createdAt[r]))

C2_Witness ==
    \E r, q \in Runs :
        /\ Terminated(r) /\ outcome[r] = "Aborted" /\ dumpStdout[r] # <<>>
        /\ Terminated(q) /\ outcome[q] = "Done"

\* C3: a dump that ends with a code N # 0 makes the pipeline terminate with exit
\* code exactly N.
C3_DumpCodeVerbatim ==
    \A r \in Runs :
        (/\ Terminated(r)
         /\ process[r].state = "exited"
         /\ process[r].returncode # Some(0))
        => exitStatus[r] = process[r].returncode[1]

\* C4: when the dump ended with 0 and the upload raised (session setup,
\* authentication, transport, rejection), the failure is logged, the exit status
\* is the one fixed non-zero code whatever was raised, and the local file is gone.
C4_UploadFailureFixedStatus ==
    \A r \in Runs :
        (Terminated(r) /\ DumpExitedZero(r) /\ raised[r] \in SessionErrors \cup PutErrors)
        => /\ exitStatus[r] = UploadFailedCode
           /\ exitStatus[r] # 0
           /\ Logged(r, "ERROR", "failed uploading")
           /\ Logged(r, "ERROR", raised[r])
           /\ ~Exists(disk, BackupFileName(createdAt[r]))

C4_Witness ==
    \E r, q \in Runs :
        /\ Terminated(r) /\ raised[r] \in SessionErrors
        /\ Terminated(q) /\ raised[q] = "rejected" /\ dumpStdout[q] # <<>>

\* C5 as claimed: no run that ended through UploadFailed has the exit code of a
\* run that ended through DumpFailed.
C5_UploadCodeDistinctFromDumpCodes ==
    \A r, q \in Runs :
        (/\ Terminated(r) /\ outcome[r] = "UploadFailed"
         /\ Terminated(q) /\ outcome[q] = "DumpFailed")
        => exitStatus[r] # exitStatus[q]

\* C5 as amended: a run that ended through UploadFailed has exit code 1, which is
\* not the success code; a run that ended through DumpFailed has that same exit
\* code only when its dump's own return code is 1 modulo 256.
C5_UploadCodeIsOneAndMeetsDumpCodeOne ==
    \A r, q \in Runs :
        (Terminated(r) /\ outcome[r] = "UploadFailed")
        => /\ exitStatus[r] = 1
           /\ (Terminated(q) /\ outcome[q] = "DumpFailed"
               /\ exitStatus[q] = exitStatus[r])
              => process[q].returncode[1] % 256 = 1

C5_Witness ==
    \E r, q \in Runs :
        /\ Terminated(r) /\ outcome[r] = "UploadFailed"
        /\ Terminated(q) /\ outcome[q] = "DumpFailed"
        /\ exitStatus[q] # exitStatus[r]

\* C6: when the dump ended with 0 and put_object returned, then after the process
\* has exited the bucket holds an object under the key derived from the run's
\* timestamp, its body is what the dump wrote to stdout, the local file is gone;
\* and the bucket holds exactly one object for each run whose upload succeeded.
C6_SuccessStoresTheDumpOnce ==
    /\ \A r \in Runs :
        (Terminated(r) /\ DumpExitedZero(r) /\ UploadSucceeded(r))
        => /\ KeyOf(r) \in DOMAIN bucket
           /\ bucket[KeyOf(r)] = dumpStdout[r]
           /\ ~Exists(disk, BackupFileName(createdAt[r]))
    /\ Cardinality(DOMAIN bucket) = Cardinality({r \in Runs : UploadSucceeded(r)})

C6_Witness ==
    \E r, q \in Runs :
        /\ r # q
        /\ Terminated(r) /\ UploadSucceeded(r) /\ dumpStdout[r] # <<>>
        /\ Terminated(q) /\ UploadSucceeded(q) /\ dumpStdout[q] # dumpStdout[r]

\* C7: whenever the dump ended with 0 and the upload succeeded, the run ends as
\* Done: one success line is logged and the exit code is 0, whatever the size and
\* the elapsed time.
C7_SuccessAlwaysReportsAndExitsZero ==
    \A r \in Runs :
        (Terminated(r) /\ DumpExitedZero(r) /\ UploadSucceeded(r))
        => /\ outcome[r] = "Done"
           /\ exitStatus[r] = 0
           /\ Cardinality({i \in DOMAIN log[r] : log[r][i].level = "INFO"}) = 1

\* C8: nothing is retried: a run spawns the dump at most once and calls put_object
\* at most once; its key is in the bucket when its upload succeeded, and is not
\* when the run ended through DumpFailed or UploadFailed.
C8_NoRetry ==
    \A r \in Runs :
        /\ dumpStarts[r] <= 1
        /\ putCalls[r] <= 1
        /\ UploadSucceeded(r) => KeyOf(r) \in DOMAIN bucket
        /\ outcome[r] \in {"DumpFailed", "UploadFailed"} => KeyOf(r) \notin DOMAIN bucket

C8_Witness ==
    \E r, q \in Runs :
        /\ Terminated(r) /\ outcome[r] = "UploadFailed" /\ putCalls[r] = 1
        /\ Terminated(q) /\ outcome[q] = "Done" /\ putCalls[q] = 1 /\ dumpStarts[q] = 1

\* C9: a run terminates with exit code 0 only if the full export is in the bucket,
\* and whenever it terminates with another code the bucket holds no object of it.
C9_NoPartialSuccess ==
    \A r \in Runs :
        Terminated(r)
        => /\ exitStatus[r] = 0
              => (KeyOf(r) \in DOMAIN bucket /\ bucket[KeyOf(r)] = dumpStdout[r])
           /\ exitStatus[r] # 0 => KeyOf(r) \notin DOMAIN bucket

\* C10: the keys sort as the creation times: of two runs, the one created earlier
\* has the lexicographically smaller key.
C10_KeysSortByCreationTime ==
    \A r, q \in Runs :
        (/\ createdAt[r] # NoTime
         /\ createdAt[q] # NoTime
         /\ Earlier(createdAt[r], createdAt[q]))
        => StrLess(ObjectKey(backup_file_name[r]), ObjectKey(backup_file_name[q]))

\* C11: the file name and the key of a run are determined by its creation
\* timestamp (backup_<isoformat>.sql, db-backups/<file name>); runs with different
\* timestamps have different file names and keys, and two runs that both uploaded
\* leave two objects in the bucket.
C11_NamesFollowTimestamp ==
    \A r, q \in Runs :
        (createdAt[r] # NoTime /\ createdAt[q] # NoTime)
        => /\ backup_file_name[r] = BackupFileName(createdAt[r])
           /\ SubSeq(backup_file_name[r], 1, 7) = <<98, 97, 99, 107, 117, 112, 95>>
           /\ createdAt[r] = createdAt[q] => backup_file_name[r] = backup_file_name[q]
           /\ createdAt[r] # createdAt[q]
              => /\ backup_file_name[r] # backup_file_name[q]
                 /\ ObjectKey(backup_file_name[r]) # ObjectKey(backup_file_name[q])
           /\ (r # q /\ Terminated(r) /\ Terminated(q)
               /\ UploadSucceeded(r) /\ UploadSucceeded(q))
              => /\ ObjectKey(backup_file_name[r]) \in DOMAIN bucket
                 /\ ObjectKey(backup_file_name[q]) \in DOMAIN bucket
                 /\ Cardinality(DOMAIN bucket) = 2

C11_Witness ==
    \E r, q \in Runs :
        /\ r # q
        /\ createdAt[r].sec = createdAt[q].sec
        /\ Terminated(r) /\ outcome[r] = "Done"
        /\ Terminated(q) /\ outcome[q] = "Done"

\* the byte count b is a double: float(b) = b (every b below 2^53 is)
IsDouble(size) == RoundToDouble(size) = size

\* what C12 says of the call made: with n the number of base-1024 digits of b, the
\* smallest k with b / 1024^k < 1024 is n - 1 (0 for b < 1024); the call raises
\* exactly when no listed unit has that index, and returns otherwise that unit
\* with b / 1024^k to one decimal (its integer part, or one more after rounding)
SizeResultAsClaimed ==
    LET n == Len(sizeArg)
        k == IF n <= 1 THEN 1 ELSE n
        lead == IF n = 0 THEN 0 ELSE sizeArg[1]
        out == sizeOut[1]
    IN /\ out.raised <=> k > 9
       /\ ~out.raised
          => /\ out.unit = SizeUnits[k]
             /\ out.value.whole \in {lead, lead + 1}
             /\ out.value.tenths \in 0..9

\* C12 as claimed: for every byte count b, magnitude_format_size picks the
\* smallest unit index k with b / 1024^k < 1024 and returns the value scaled to
\* it, and raises when b >= 1024^9.
C12_SmallestUnitForEveryCount ==
    sizeOut # <<>> => SizeResultAsClaimed

\* C12 as amended: the same for every byte count that is a double (every count
\* below 2^53, and all those with at most 53 significant bits).
C12_SmallestUnitForDoubles ==
    (sizeOut # <<>> /\ IsDouble(sizeArg)) => SizeResultAsClaimed

C12_Witness ==
    /\ sizeArg = <<1, 0, 0, 0, 0, 0, 0, 0, 0, 0>>
    /\ sizeOut # <<>>
    /\ sizeOut[1].raised

\* C13: for every duration t, magnitude_time_format divides by 60 from unit to
\* unit (s below 60 s, m below 60 min, h above), the scaled value it returns is
\* below 60 in the unit it reports, and it raises exactly when t >= 60^3 seconds.
\* The value returned is held in hundredths of the unit.
C13_ReturnedValueBelowSixty ==
    timeOut # <<>>
    => LET out == timeOut[1]
       IN /\ out.raised <=> timeArg >= 1000 * Sixty * Sixty * Sixty
          /\ ~out.raised
             => /\ out.unit = IF timeArg < 1000 * Sixty THEN "s"
                              ELSE IF timeArg < 1000 * Sixty * Sixty THEN "m"
                              ELSE "h"
                /\ out.value < 100 * Sixty

\* the fields the pipeline is configured with: the database and the storage settings
PipelineFields == ConfigFields \ {"LOG_LEVEL"}

\* C14: when any configuration field (database user, password, name, access key,
\* secret key, bucket name, region, endpoint) is absent or empty, no run spawns
\* the dump process and no run makes an upload call.
C14_NoPipelineOnMissingOrEmptyConfig ==
    (\E f \in PipelineFields : getenv(environ, f) \in {None, ""})
    => \A r \in Runs : dumpStarts[r] = 0 /\ putCalls[r] = 0

\* the file names whose removal run r has registered with atexit
Registered(r) == {atexit[r][i] : i \in 1..Len(atexit[r])}

\* C15: in no reachable state does the local file of a run exist while the
\* cleanup for its name is not registered: the registration precedes the open
\* that creates the file and every write to it.
C15_FileOnlyWhileCleanupRegistered ==
    \A r \in Runs :
        Exists(disk, BackupFileName(createdAt[r]))
        => BackupFileName(createdAt[r]) \in Registered(r)

C15_Witness ==
    \E r \in Runs :
        /\ pc[r] = "communicate"
        /\ Exists(disk, BackupFileName(createdAt[r]))
        /\ disk[BackupFileName(createdAt[r])] # <<>>
        /\ BackupFileName(createdAt[r]) \in Registered(r)

\* C16: every call of remove_if_exists - the first, a repeated one, one for a file
\* never created or already gone - raises nothing, leaves the file absent and
\* every other file as it was; a call repeated for the same name changes nothing.
C16_RemoveIsIdempotentAndSilent ==
    \A i \in 1..Len(removeCalls) :
        LET c == removeCalls[i]
        IN /\ c.raised = None
           /\ ~Exists(c.after, c.name)
           /\ DOMAIN c.after = DOMAIN c.before \ {c.name}
           /\ \A other \in DOMAIN c.after : c.after[other] = c.before[other]
           /\ (i > 1 /\ removeCalls[i - 1].name = c.name) => c.after = c.before

C16_Witness ==
    /\ Len(removeCalls) = 2
    /\ removeCalls[1].name = removeCalls[2].name
    /\ Exists(removeCalls[1].before, removeCalls[1].name)
    /\ \E other \in DOMAIN disk : disk[other] # <<>>

\* the dump of run r could not be had: the spawn failed, or mysqldump is missing
DumpUnavailable(r) == process[r].state = "failed" \/ process[r].missing

\* C17: a run whose dump process cannot be spawned, or whose dump utility is
\* missing, ends in a condition other than that of a non-zero dump exit, with
\* the local file neither created nor written, no upload attempted and a
\* non-zero exit status.
C17_SpawnFailureDistinctAndBeforeAnyFile ==
    \A r \in Runs :
        (DumpUnavailable(r) /\ pc[r] \in {"exiting", "terminated"})
        => /\ outcome[r] # "DumpFailed"
           /\ pc[r] = "exiting" => ~Exists(disk, BackupFileName(createdAt[r]))
           /\ dumpStdout[r] = <<>>
           /\ ~UploadBegun(r) /\ putCalls[r] = 0
           /\ pc[r] = "terminated" => exitStatus[r] # 0

\* run r has its local file in use: opened for the dump and not yet through
\* with the dump, the upload and the os.stat of the report
FileInUse(r) == pc[r] \in {"spawn", "communicate", "upload", "put_object", "stat"}

\* C18: of two runs executing concurrently each has a file name of its own, and
\* while a run has its local file in use the file is there and holds what that
\* run's dump has written: no write and no cleanup of the other run has emptied
\* or removed it.
C18_ConcurrentRunsDoNotInterfere ==
    /\ \A r, q \in Runs :
        (r # q /\ backup_file_name[r] # <<>> /\ backup_file_name[q] # <<>>)
        => backup_file_name[r] # backup_file_name[q]
    /\ \A r \in Runs :
        FileInUse(r)
        => /\ Exists(disk, backup_file_name[r])
           /\ disk[backup_file_name[r]] = dumpStdout[r]

\* C19: in a run on its own the cleanup does not fire before main has returned
\* or been aborted: from the open of the local file until the run is at its
\* end the file exists and holds what the dump wrote, so neither the open of
\* the upload nor os.stat finds it missing.
C19_FilePresentUntilMainEnds ==
    \A r \in Runs :
        /\ (FileInUse(r) \/ (pc[r] = "exiting" /\ dumpStarts[r] > 0))
           => /\ Exists(disk, BackupFileName(createdAt[r]))
              /\ disk[BackupFileName(createdAt[r])] = dumpStdout[r]
        /\ raised[r] # "FileNotFoundError"

C19_Witness ==
    \E r \in Runs :
        /\ pc[r] = "exiting"
        /\ outcome[r] = "Done"
        /\ Exists(disk, BackupFileName(createdAt[r]))
        /\ disk[BackupFileName(createdAt[r])] # <<>>
        /\ \E q \in Runs : Terminated(q)

\* the ways a run ends
Outcomes == {"DumpFailed", "UploadFailed", "Done", "Aborted"}

\* C20: every run that has started eventually terminates with one of the four
\* outcomes and with its cleanup done (its local file absent); and once a run
\* has an outcome it keeps it, spawns no dump and makes no upload call again.
C20_EveryRunTerminatesOnce ==
    /\ \A r \in Runs :
        (pc[r] # "idle")
        ~> (/\ Terminated(r)
            /\ outcome[r] \in Outcomes
            /\ ~Exists(disk, BackupFileName(createdAt[r])))
    /\ [][\A r \in Runs :
            outcome[r] # None
            => /\ outcome'[r] = outcome[r]
               /\ pc'[r] \in {"exiting", "terminated"}
               /\ dumpStarts'[r] = dumpStarts[r]
               /\ putCalls'[r] = putCalls[r]]_vars

C20_Witness ==
    \E r \in Runs :
        /\ Terminated(r)
        /\ outcome[r] = "UploadFailed"
        /\ dumpStdout[r] # <<>>
        /\ ~Exists(disk, BackupFileName(createdAt[r]))

====
